---- MODULE Spec2Model ----
(***************************************************************************)
(* The scope-tracking rename pass of src/he.py (class Deobfuscator).       *)
(*                                                                         *)
(* A syntax tree is a nested record [kind, id, kids]: kind is the node     *)
(* class, id the identifier text of a Name (""  elsewhere) and kids maps   *)
(* each child attribute to the list of nodes it holds (an attribute that   *)
(* holds one node is a list of length one, None is the empty list).        *)
(* A path is a sequence of <<attribute, index>> steps from the root.       *)
(*                                                                         *)
(* The handlers of Deobfuscator call each other recursively through        *)
(* visit / generic_visit, so the call stack is explicit: `stack` holds the *)
(* calls still to be made, the next one first.  A handler is the list of   *)
(* calls its body makes, in order.                                         *)
(*                                                                         *)
(* visit and generic_visit are inherited from the visitor base class       *)
(* (he.py line 8), which is library code.  They are modelled by the usual  *)
(* visitor convention: visit(n) calls visit_<kind>(n) when the class has   *)
(* it and generic_visit(n) otherwise; generic_visit(n) calls visit on      *)
(* every child of n (on every element when n is a list) and does not       *)
(* call visit_<kind>(n) on n itself.                                       *)
(***************************************************************************)
EXTENDS Integers, Sequences, FiniteSets, TLC

VARIABLES
  input,    \* the parsed tree as handed to the renamer (never written)
  tree,     \* the tree being mutated in place
  scopes,   \* self.scopes: list of dicts original name -> fresh name
  counter,  \* self.counter
  stack,    \* pending calls of the traversal, next first
  err,      \* TRUE once an exception has escaped the traversal
  reqs,     \* the requests to the index endpoint: the locals of each call
  active    \* the request whose pipeline is running, 0 when none is

vars == <<input, tree, scopes, counter, stack, err, reqs, active>>

----------------------------------------------------------------------------
(* Trees                                                                   *)

NoKids == [f \in {} |-> <<>>]

Node(kind, kids) == [kind |-> kind, id |-> "", kids |-> kids]

Name(n) == [kind |-> "Name", id |-> n, kids |-> NoKids]

Number == Node("Number", NoKids)

Varargs == Node("Varargs", NoKids)

UnaryOp(e) == Node("UnaryOp", [operand |-> <<e>>])

AddOp(l, r) == Node("AddOp", [left |-> <<l>>, right |-> <<r>>])

Call(f, args) == Node("Call", [func |-> <<f>>, args |-> args])

Block(stmts) == Node("Block", [body |-> stmts])

Chunk(stmts) == Node("Chunk", [body |-> <<Block(stmts)>>])

Return(values) == Node("Return", [values |-> values])

LocalAssign(targets, values) ==
  Node("LocalAssign", [targets |-> targets, values |-> values])

LocalFunction(name, args, stmts) ==
  Node("LocalFunction", [name |-> <<name>>, args |-> args, body |-> <<Block(stmts)>>])

\* name is a list: <<>> when the function has no name
Function(name, args, stmts) ==
  Node("Function", [name |-> name, args |-> args, body |-> <<Block(stmts)>>])

AnonymousFunction(args, stmts) ==
  Node("AnonymousFunction", [args |-> args, body |-> <<Block(stmts)>>])

\* step is a list: <<>> when the loop has no step
For(target, start, stop, step, stmts) ==
  Node("For", [target |-> <<target>>, start |-> <<start>>, stop |-> <<stop>>,
               step |-> step, body |-> <<Block(stmts)>>])

Forin(targets, iter, stmts) ==
  Node("Forin", [body |-> <<Block(stmts)>>, iter |-> iter, targets |-> targets])

While(test, stmts) ==
  Node("While", [test |-> <<test>>, body |-> <<Block(stmts)>>])

Repeat(stmts, test) ==
  Node("Repeat", [body |-> <<Block(stmts)>>, test |-> <<test>>])

\* orelse is the list the handler iterates: ElseIf nodes and a final else Block
If(test, stmts, orelse) ==
  Node("If", [test |-> <<test>>, body |-> <<Block(stmts)>>, orelse |-> orelse])

ElseIf(test, stmts) ==
  Node("ElseIf", [test |-> <<test>>, body |-> <<Block(stmts)>>])

Do(stmts) == Node("Do", [body |-> <<Block(stmts)>>])

\* the child attributes of a node class, in the order generic_visit walks them
Fields(kind) ==
  CASE kind = "Chunk" -> <<"body">>
    [] kind = "Block" -> <<"body">>
    [] kind = "UnaryOp" -> <<"operand">>
    [] kind = "AddOp" -> <<"left", "right">>
    [] kind = "Call" -> <<"func", "args">>
    [] kind = "Return" -> <<"values">>
    [] kind = "LocalAssign" -> <<"targets", "values">>
    [] kind = "LocalFunction" -> <<"name", "args", "body">>
    [] kind = "Function" -> <<"name", "args", "body">>
    [] kind = "AnonymousFunction" -> <<"args", "body">>
    [] kind = "For" -> <<"target", "start", "stop", "step", "body">>
    [] kind = "Forin" -> <<"body", "iter", "targets">>
    [] kind = "While" -> <<"test", "body">>
    [] kind = "Repeat" -> <<"body", "test">>
    [] kind = "If" -> <<"test", "body", "orelse">>
    [] kind = "ElseIf" -> <<"test", "body">>
    [] kind = "Do" -> <<"body">>
    [] OTHER -> <<>>

\* the attributes whose value is a Python list (the others hold a node or None)
ListFields ==
  { <<"Block", "body">>, <<"Call", "args">>, <<"Return", "values">>,
    <<"LocalAssign", "targets">>, <<"LocalAssign", "values">>,
    <<"LocalFunction", "args">>, <<"Function", "args">>,
    <<"AnonymousFunction", "args">>, <<"Forin", "iter">>,
    <<"Forin", "targets">>, <<"If", "orelse">> }

RECURSIVE NodeAt(_, _)
NodeAt(n, p) ==
  IF p = <<>> THEN n ELSE NodeAt(n.kids[p[1][1]][p[1][2]], Tail(p))

\* an assignment that puts a fresh node in the place of the Name
RECURSIVE SetId_Replaces(_, _, _)
SetId_Replaces(n, p, new) ==
  IF p = <<>> THEN [kind |-> "String", id |-> new, kids |-> NoKids]
  ELSE [n EXCEPT !.kids[p[1][1]][p[1][2]] = SetId_Replaces(@, Tail(p), new)]

RECURSIVE SetId(_, _, _)
SetId(n, p, new) ==
  IF p = <<>> THEN [n EXCEPT !.id = new]
  ELSE [n EXCEPT !.kids[p[1][1]][p[1][2]] = SetId(@, Tail(p), new)]

RECURSIVE Flatten(_)
Flatten(ss) == IF ss = <<>> THEN <<>> ELSE Head(ss) \o Flatten(Tail(ss))

\* the paths of the elements of attribute f of the node at p
Elems(t, p, f) ==
  [i \in 1..Len(NodeAt(t, p).kids[f]) |-> p \o << <<f, i>> >>]

\* the paths of all children of the node at p, in attribute order
ChildPaths(t, p) ==
  LET fs == Fields(NodeAt(t, p).kind)
  IN  Flatten([k \in 1..Len(fs) |-> Elems(t, p, fs[k])])

----------------------------------------------------------------------------
(* Pending calls                                                           *)

VisitCall(p) == [op |-> "visit", path |-> p, field |-> ""]

\* generic_visit(node at p)
GenericNode(p) == [op |-> "generic", path |-> p, field |-> ""]

\* generic_visit(list held by attribute f of the node at p)
GenericList(p, f) == [op |-> "generic", path |-> p, field |-> f]

PushCall == [op |-> "push", path |-> <<>>, field |-> ""]

PopCall == [op |-> "pop", path |-> <<>>, field |-> ""]

\* old = n.id; new = self.new_name(); n.id = new; self.scopes[-1][old] = new
DeclareCall(p) == [op |-> "declare", path |-> p, field |-> ""]

\* self.generic_visit(node.f) for the node at p: node.f is a list, a node or None
GenericAttr(t, p, f) ==
  LET n == NodeAt(t, p)
  IN  IF <<n.kind, f>> \in ListFields THEN <<GenericList(p, f)>>
      ELSE IF n.kids[f] = <<>> THEN <<>>
      ELSE <<GenericNode(p \o << <<f, 1>> >>)>>

\* for x in node.f: declare x
DeclareEach(t, p, f) ==
  LET es == Elems(t, p, f) IN [i \in 1..Len(es) |-> DeclareCall(es[i])]

----------------------------------------------------------------------------
(* Name generator and scope stack                                          *)

Digit(d) ==
  CASE d = 0 -> "0" [] d = 1 -> "1" [] d = 2 -> "2" [] d = 3 -> "3"
    [] d = 4 -> "4" [] d = 5 -> "5" [] d = 6 -> "6" [] d = 7 -> "7"
    [] d = 8 -> "8" [] d = 9 -> "9"

\* str(n) for n >= 0
RECURSIVE Str(_)
Str(n) == IF n < 10 THEN Digit(n) ELSE Str(n \div 10) \o Digit(n % 10)

\* a new_name that returns the name without advancing the counter
new_name_NoIncrement(c) == [counter |-> c, name |-> "var" \o Str(c + 1)]

\* new_name: the counter after the call and the name returned
new_name(c) == [counter |-> c + 1, name |-> "var" \o Str(c + 1)]

EmptyScope == [n \in {} |-> ""]

\* scope[old] = new
Bind(scope, old, new) ==
  [n \in DOMAIN scope \cup {old} |-> IF n = old THEN new ELSE scope[n]]

\* a loop that walks self.scopes forwards: the first scope that contains name
Lookup_Outermost(ss, i, name) ==
  LET hs == {j \in 1..i : name \in DOMAIN ss[j]}
  IN  IF hs = {} THEN 0 ELSE CHOOSE j \in hs : \A k \in hs : j <= k

\* the loop of visit_Name: the index of the first scope, from the end of the
\* list towards its start, that contains name; 0 when none does
RECURSIVE Lookup(_, _, _)
Lookup(ss, i, name) ==
  IF i = 0 THEN 0
  ELSE IF name \in DOMAIN ss[i] THEN i
  ELSE Lookup(ss, i - 1, name)

----------------------------------------------------------------------------
(* The handlers: the calls each makes, in order                            *)

\* a handler that walks the block without a scope of its own
visit_Block_NoScope(t, p) == <<GenericNode(p)>>

visit_Block(t, p) == <<PushCall>> \o <<GenericNode(p)>> \o <<PopCall>>

visit_Function(t, p) ==
  (IF NodeAt(t, p).kids.name # <<>> THEN <<VisitCall(p \o << <<"name", 1>> >>)>> ELSE <<>>)
  \o <<PushCall>>
  \o DeclareEach(t, p, "args")
  \o GenericAttr(t, p, "body")
  \o <<PopCall>>

visit_LocalFunction(t, p) ==
  <<DeclareCall(p \o << <<"name", 1>> >>)>>
  \o <<PushCall>>
  \o DeclareEach(t, p, "args")
  \o GenericAttr(t, p, "body")
  \o <<PopCall>>

\* per target: generic_visit(target), then the declaration when it is a Name
LocalAssignTarget(t, q) ==
  <<GenericNode(q)>>
  \o (IF NodeAt(t, q).kind = "Name" THEN <<DeclareCall(q)>> ELSE <<>>)

\* a handler that declares the targets before it visits the values
visit_LocalAssign_TargetsFirst(t, p) ==
  LET ts == Elems(t, p, "targets")
  IN  Flatten([i \in 1..Len(ts) |-> LocalAssignTarget(t, ts[i])])
      \o GenericAttr(t, p, "values")

visit_LocalAssign(t, p) ==
  LET ts == Elems(t, p, "targets")
  IN  GenericAttr(t, p, "values")
      \o Flatten([i \in 1..Len(ts) |-> LocalAssignTarget(t, ts[i])])

visit_For(t, p) ==
  GenericAttr(t, p, "start")
  \o GenericAttr(t, p, "stop")
  \o GenericAttr(t, p, "step")
  \o <<PushCall>>
  \o <<DeclareCall(p \o << <<"target", 1>> >>)>>
  \o GenericAttr(t, p, "body")
  \o <<PopCall>>

visit_Forin(t, p) ==
  GenericAttr(t, p, "iter")
  \o <<PushCall>>
  \o DeclareEach(t, p, "targets")
  \o GenericAttr(t, p, "body")
  \o <<PopCall>>

\* a handler that does not pop the scope it pushed
visit_While_NoPop(t, p) ==
  GenericAttr(t, p, "test")
  \o <<PushCall>>
  \o GenericAttr(t, p, "body")

visit_While(t, p) ==
  GenericAttr(t, p, "test")
  \o <<PushCall>>
  \o GenericAttr(t, p, "body")
  \o <<PopCall>>

visit_Repeat(t, p) ==
  <<PushCall>>
  \o GenericAttr(t, p, "body")
  \o GenericAttr(t, p, "test")
  \o <<PopCall>>

\* an iteration that visits the condition after the branch's scope is pushed
OrElse_TestInScope(t, q) ==
  <<PushCall>>
  \o (IF "test" \in DOMAIN NodeAt(t, q).kids THEN GenericAttr(t, q, "test") ELSE <<>>)
  \o GenericAttr(t, q, "body")
  \o <<PopCall>>

\* one iteration of `for oelseif in node.orelse`, oelseif at q
OrElse(t, q) ==
  (IF "test" \in DOMAIN NodeAt(t, q).kids THEN GenericAttr(t, q, "test") ELSE <<>>)
  \o <<PushCall>>
  \o GenericAttr(t, q, "body")
  \o <<PopCall>>

visit_If(t, p) ==
  LET es == Elems(t, p, "orelse")
  IN  GenericAttr(t, p, "test")
      \o <<PushCall>>
      \o GenericAttr(t, p, "body")
      \o <<PopCall>>
      \o Flatten([i \in 1..Len(es) |-> OrElse(t, es[i])])

visit_Do(t, p) ==
  <<PushCall>>
  \o GenericAttr(t, p, "body")
  \o <<PopCall>>

\* the node classes Deobfuscator defines a visit_ method for
Handled ==
  {"Name", "Block", "Function", "LocalFunction", "LocalAssign", "For",
   "Forin", "While", "Repeat", "If", "Do"}

----------------------------------------------------------------------------
(* Input trees                                                             *)

\* the longest statement list of a nested body
MaxBody == 2

X == Name("x")

Y == Name("y")

\* the call statement f(e)
Use(e) == Call(Name("f"), <<e>>)

\* local x = 1
LocalX == LocalAssign(<<X>>, <<Number>>)

\* local x = x, local y = x + 1, f(x), f(var1), while x do end
BodyStmts ==
  { LocalAssign(<<X>>, <<X>>),
    LocalAssign(<<Y>>, <<AddOp(X, Number)>>),
    Use(X),
    Use(Name("var1")),
    While(X, <<>>) }

Bodies == UNION {[1..k -> BodyStmts] : k \in 0..MaxBody}

\* the statements that own a body b
Compound(b) ==
  { Do(b),
    While(X, b), While(UnaryOp(X), b),
    Repeat(b, X), Repeat(b, UnaryOp(X)), Repeat(b, Y),
    If(X, b, <<>>),
    If(X, b, <<ElseIf(X, <<Use(X)>>)>>),
    If(UnaryOp(X), b, <<ElseIf(UnaryOp(Y), <<LocalX>>), Block(<<Use(X)>>)>>),
    Forin(<<X>>, <<X>>, b),
    Forin(<<X, Y>>, <<Call(Name("pairs"), <<X>>)>>, b),
    Function(<<>>, <<Y>>, b),
    Function(<<X>>, <<X>>, b),
    Function(<<Name("g")>>, <<X, Varargs>>, b),
    Use(AnonymousFunction(<<X>>, b)),
    For(X, Number, Number, <<>>, b),
    For(X, X, Number, <<>>, b),
    For(Y, AddOp(X, Number), Number, <<X>>, b),
    LocalFunction(X, <<>>, b),
    LocalFunction(X, <<X>>, b),
    LocalFunction(Y, <<X, Y>>, b) }

Pre == { <<>>, <<LocalX>> }

Post == { <<>>, <<Use(X)>> }

Generated ==
  { Chunk(pre \o <<c>> \o post) :
      pre \in Pre, c \in UNION {Compound(b) : b \in Bodies}, post \in Post }

\* two sibling numeric loops over the same name, then a use after them
Siblings ==
  { Chunk(<<For(X, Number, Number, <<>>, b1), For(X, Number, Number, <<>>, b2), Use(X)>>) :
      b1 \in Bodies, b2 \in {<<Use(X)>>, <<LocalX, Use(X)>>} }

\* local x = 1; do local x = x + 1 end
Shadowing ==
  Chunk(<<LocalX, Do(<<LocalAssign(<<X>>, <<AddOp(X, Number)>>)>>)>>)

\* repeat local done = check() until done
RepeatUntil ==
  Chunk(<<Repeat(<<LocalAssign(<<Name("done")>>, <<Call(Name("check"), <<>>)>>)>>,
                 Name("done"))>>)

\* local function add(a, b) return a + b end return add(1, 2)
AddExample ==
  Chunk(<<LocalFunction(Name("add"), <<Name("a"), Name("b")>>,
                        <<Return(<<AddOp(Name("a"), Name("b"))>>)>>),
          Return(<<Call(Name("add"), <<Number, Number>>)>>)>>)

\* local function fact(n) return fact(n) end
Recursive ==
  Chunk(<<LocalFunction(Name("fact"), <<Name("n")>>,
                        <<Return(<<Call(Name("fact"), <<Name("n")>>)>>)>>)>>)

\* local x, y, x, y, x, y, x, y, x, y, x
ManyLocals == Chunk(<<LocalAssign(<<X, Y, X, Y, X, Y, X, Y, X, Y, X>>, <<>>)>>)

\* local x = 1; local y = function() while x do end; f(x) end
NestedValue ==
  Chunk(<<LocalX,
          LocalAssign(<<Y>>, <<AnonymousFunction(<<>>, <<While(X, <<>>), Use(X)>>)>>)>>)

Examples == {Shadowing, RepeatUntil, AddExample, Recursive, ManyLocals, NestedValue}

Programs == Generated \cup Siblings \cup Examples

----------------------------------------------------------------------------
(* The traversal                                                           *)

\* Deobfuscator() followed by the pending call deobf.visit(tree)
Init ==
  /\ input \in Programs
  /\ tree = input
  /\ scopes = <<EmptyScope>>
  /\ counter = 0
  /\ stack = <<VisitCall(<<>>)>>
  /\ err = FALSE
  /\ reqs = <<>>
  /\ active = 0

Top == Head(stack)

\* the next call is visit(n) for a node n of the given class
Visiting(kind) ==
  /\ ~err
  /\ stack # <<>>
  /\ Top.op = "visit"
  /\ NodeAt(tree, Top.path).kind = kind

\* the handler's calls replace the visit call
Enter(calls) ==
  /\ stack' = calls \o Tail(stack)
  /\ UNCHANGED <<input, tree, scopes, counter, err, reqs, active>>

\* a visit_Name that also renames the names no scope binds
visit_Name_RenamesGlobals(t, ss, p) ==
  LET name == NodeAt(t, p).id
      i == Lookup(ss, Len(ss), name)
  IN  IF i = 0 THEN SetId(t, p, "var" \o Str(0)) ELSE SetId(t, p, ss[i][name])

\* the tree after visit_Name's loop on the Name at p
visit_Name(t, ss, p) ==
  LET name == NodeAt(t, p).id
      i == Lookup(ss, Len(ss), name)
  IN  IF i = 0 THEN t ELSE SetId(t, p, ss[i][name])

CallVisitName ==
  /\ Visiting("Name")
  /\ tree' = visit_Name(tree, scopes, Top.path)
  /\ stack' = <<GenericNode(Top.path)>> \o Tail(stack)
  /\ UNCHANGED <<input, scopes, counter, err, reqs, active>>

CallVisitBlock == Visiting("Block") /\ Enter(visit_Block(tree, Top.path))

CallVisitFunction == Visiting("Function") /\ Enter(visit_Function(tree, Top.path))

CallVisitLocalFunction ==
  Visiting("LocalFunction") /\ Enter(visit_LocalFunction(tree, Top.path))

CallVisitLocalAssign ==
  Visiting("LocalAssign") /\ Enter(visit_LocalAssign(tree, Top.path))

CallVisitFor == Visiting("For") /\ Enter(visit_For(tree, Top.path))

CallVisitForin == Visiting("Forin") /\ Enter(visit_Forin(tree, Top.path))

CallVisitWhile == Visiting("While") /\ Enter(visit_While(tree, Top.path))

CallVisitRepeat == Visiting("Repeat") /\ Enter(visit_Repeat(tree, Top.path))

CallVisitIf == Visiting("If") /\ Enter(visit_If(tree, Top.path))

CallVisitDo == Visiting("Do") /\ Enter(visit_Do(tree, Top.path))

\* visit(n) for a class without a handler falls back to generic_visit(n)
CallVisitOther ==
  /\ ~err
  /\ stack # <<>>
  /\ Top.op = "visit"
  /\ NodeAt(tree, Top.path).kind \notin Handled
  /\ Enter(<<GenericNode(Top.path)>>)

\* the visit calls generic_visit makes
generic_visit(t, c) ==
  LET ps == IF c.field = "" THEN ChildPaths(t, c.path) ELSE Elems(t, c.path, c.field)
  IN  [i \in 1..Len(ps) |-> VisitCall(ps[i])]

CallGenericVisit ==
  /\ ~err
  /\ stack # <<>>
  /\ Top.op = "generic"
  /\ Enter(generic_visit(tree, Top))

push_scope(ss) == Append(ss, EmptyScope)

\* a pop_scope that leaves the scope on the list
pop_scope_Keeps(ss) == ss

pop_scope(ss) == SubSeq(ss, 1, Len(ss) - 1)

CallPushScope ==
  /\ ~err
  /\ stack # <<>>
  /\ Top.op = "push"
  /\ scopes' = push_scope(scopes)
  /\ stack' = Tail(stack)
  /\ UNCHANGED <<input, tree, counter, err, reqs, active>>

CallPopScope ==
  /\ ~err
  /\ stack # <<>>
  /\ Top.op = "pop"
  /\ scopes' = pop_scope(scopes)
  /\ stack' = Tail(stack)
  /\ UNCHANGED <<input, tree, counter, err, reqs, active>>

\* an assignment self.scopes[0][old] = new, into the root scope
Record_Outermost(ss, old, new) == [ss EXCEPT ![1] = Bind(@, old, new)]

\* the scopes after self.scopes[-1][old] = new
Record(ss, old, new) == [ss EXCEPT ![Len(ss)] = Bind(@, old, new)]

\* old = n.id; new = self.new_name(); n.id = new; self.scopes[-1][old] = new
Declare ==
  /\ ~err
  /\ stack # <<>>
  /\ Top.op = "declare"
  /\ NodeAt(tree, Top.path).kind = "Name"
  /\ LET old == NodeAt(tree, Top.path).id
         r == new_name(counter)
     IN  /\ counter' = r.counter
         /\ tree' = SetId(tree, Top.path, r.name)
         /\ scopes' = Record(scopes, old, r.name)
  /\ stack' = Tail(stack)
  /\ UNCHANGED <<input, err, reqs, active>>

\* arg.id on a node that has no id raises; the exception leaves the traversal
DeclareRaises ==
  /\ ~err
  /\ stack # <<>>
  /\ Top.op = "declare"
  /\ NodeAt(tree, Top.path).kind # "Name"
  /\ err' = TRUE
  /\ stack' = <<>>
  /\ UNCHANGED <<input, tree, scopes, counter, reqs, active>>

Next ==
  \/ CallVisitName
  \/ CallVisitBlock
  \/ CallVisitFunction
  \/ CallVisitLocalFunction
  \/ CallVisitLocalAssign
  \/ CallVisitFor
  \/ CallVisitForin
  \/ CallVisitWhile
  \/ CallVisitRepeat
  \/ CallVisitIf
  \/ CallVisitDo
  \/ CallVisitOther
  \/ CallGenericVisit
  \/ CallPushScope
  \/ CallPopScope
  \/ Declare
  \/ DeclareRaises

Spec == Init /\ [][Next]_vars

\* deobf.visit(tree) has returned
Done == stack = <<>> /\ ~err

\* the node at q is a bare identifier that a handler hands to generic_visit:
\* the condition of a while, repeat, if or elseif, or a bound of a numeric for
BareOperand(t, q) ==
  /\ q # <<>>
  /\ NodeAt(t, q).kind = "Name"
  /\ LET k == NodeAt(t, SubSeq(q, 1, Len(q) - 1)).kind
         f == q[Len(q)][1]
     IN  \/ k \in {"While", "Repeat", "If", "ElseIf"} /\ f = "test"
         \/ k = "For" /\ f \in {"start", "stop", "step"}

RECURSIVE HasBare(_, _)
HasBare(t, p) ==
  LET cs == ChildPaths(t, p)
  IN  BareOperand(t, p) \/ \E i \in DOMAIN cs : HasBare(t, cs[i])

\* the runs on trees in which no such operand is a bare identifier
InitVisited == Init /\ ~HasBare(input, <<>>)

SpecVisited == InitVisited /\ [][Next]_vars

----------------------------------------------------------------------------
(* Source text and preprocess_luau.  A text is a sequence of characters;   *)
(* '' is the empty sequence.                                               *)

\* the characters texts are made of
Alphabet == {"a", "-", "\n", " ", ":", "[", "]", ">"}

\* \s
Space == {" ", "\n", "\t", "\r"}

\* \w
Word == {"a", "_", "0"}

\* [\w<>\|\?\[\]\{\}]
TypeChars == Word \cup {"<", ">", "|", "?", "[", "]", "{", "}"}

\* s without its first k characters
Drop(s, k) == SubSeq(s, k + 1, Len(s))

StartsWith(s, pre) == Len(s) >= Len(pre) /\ SubSeq(s, 1, Len(pre)) = pre

\* the length of the longest prefix of s made of characters of cs
RECURSIVE Span(_, _)
Span(s, cs) ==
  IF s = <<>> \/ Head(s) \notin cs THEN 0 ELSE 1 + Span(Tail(s), cs)

\* re.sub(r'--.*$', '', code, flags=re.MULTILINE)
RECURSIVE RemoveLineComments(_)
RemoveLineComments(s) ==
  IF s = <<>> THEN <<>>
  ELSE IF StartsWith(s, <<"-", "-">>)
       THEN RemoveLineComments(Drop(s, 2 + Span(Drop(s, 2), Alphabet \ {"\n"})))
       ELSE <<Head(s)>> \o RemoveLineComments(Tail(s))

\* the index of the first "]]" of s at or after i, 0 when there is none
RECURSIVE Closing(_, _)
Closing(s, i) ==
  IF i + 1 > Len(s) THEN 0
  ELSE IF s[i] = "]" /\ s[i + 1] = "]" THEN i
  ELSE Closing(s, i + 1)

\* re.sub(r'\[\[.*?\]\]', '', code, flags=re.DOTALL)
RECURSIVE RemoveLongBrackets(_)
RemoveLongBrackets(s) ==
  IF s = <<>> THEN <<>>
  ELSE IF StartsWith(s, <<"[", "[">>) /\ Closing(s, 3) # 0
       THEN RemoveLongBrackets(Drop(s, Closing(s, 3) + 1))
       ELSE <<Head(s)>> \o RemoveLongBrackets(Tail(s))

\* re.sub(pre + r'\s*[\w<>\|\?\[\]\{\}]+', '', code)
RECURSIVE RemoveTyped(_, _)
RemoveTyped(s, pre) ==
  IF s = <<>> THEN <<>>
  ELSE LET w == Span(Drop(s, Len(pre)), Space)
           c == Span(Drop(s, Len(pre) + w), TypeChars)
       IN  IF StartsWith(s, pre) /\ c >= 1
           THEN RemoveTyped(Drop(s, Len(pre) + w + c), pre)
           ELSE <<Head(s)>> \o RemoveTyped(Tail(s), pre)

\* re.sub(r'--!\w+', '', code)
RECURSIVE RemoveDirectives(_)
RemoveDirectives(s) ==
  IF s = <<>> THEN <<>>
  ELSE LET c == Span(Drop(s, 3), Word)
       IN  IF StartsWith(s, <<"-", "-", "!">>) /\ c >= 1
           THEN RemoveDirectives(Drop(s, 3 + c))
           ELSE <<Head(s)>> \o RemoveDirectives(Tail(s))

RECURSIVE Reverse(_)
Reverse(s) == IF s = <<>> THEN <<>> ELSE Append(Reverse(Tail(s)), Head(s))

\* code.strip()
strip(s) ==
  LET l == Drop(s, Span(s, Space))
  IN  SubSeq(l, 1, Len(l) - Span(Reverse(l), Space))

preprocess_luau(code) ==
  strip(RemoveDirectives(RemoveTyped(RemoveTyped(RemoveLongBrackets(
    RemoveLineComments(code)), <<":">>), <<"-", ">">>)))

----------------------------------------------------------------------------
(* The index endpoint.  A request is the record of the locals of one call  *)
(* of index together with what it was sent and what the library calls it   *)
(* makes will answer: parse is <<>> when ast.parse raises on its text and  *)
(* <<t>> when it returns the tree t; prints is FALSE when                  *)
(* ast.to_pretty_str raises.  index is a coroutine whose only await is the *)
(* read of the upload, so a pipeline runs from line 155 to line 163        *)
(* without another request running in between; the traversal variables     *)
(* hold the locals tree and deobf of the pipeline that is running.         *)

\* the longest text of the generated texts
MaxText == 2

\* a--a(newline)a, [[a]]a, a: a, ->aa, (space)a(space)
ExampleTexts ==
  { <<"a", "-", "-", "a", "\n", "a">>,
    <<"[", "[", "a", "]", "]", "a">>,
    <<"a", ":", " ", "a">>,
    <<"-", ">", "a", "a">>,
    <<" ", "a", " ">> }

Texts == UNION {[1..k -> Alphabet] : k \in 0..MaxText} \cup ExampleTexts

\* local x = 1; function g(y) f(y) end; local function x(x) end;
\* for y = x + 1, 1 do end; for x in x do end; while not x do end;
\* repeat until not x; if not x then elseif not y then else end; do end;
\* f(function(x) f(x) end)
AllKinds ==
  Chunk(<<LocalX,
          Function(<<Name("g")>>, <<Y>>, <<Use(Y)>>),
          LocalFunction(X, <<X>>, <<>>),
          For(Y, AddOp(X, Number), Number, <<>>, <<>>),
          Forin(<<X>>, <<X>>, <<>>),
          While(UnaryOp(X), <<>>),
          Repeat(<<>>, UnaryOp(X)),
          If(UnaryOp(X), <<>>, <<ElseIf(UnaryOp(Y), <<>>), Block(<<>>)>>),
          Do(<<>>),
          Use(AnonymousFunction(<<X>>, <<Use(X)>>))>>)

\* local x = 1; function g(x, ...) end
VarargsFunction ==
  Chunk(<<LocalX, Function(<<Name("g")>>, <<X, Varargs>>, <<>>)>>)

\* the trees ast.parse returns in the runs of the endpoint
ParseTrees == {AllKinds, VarargsFunction, Shadowing}

Request(m, v, t, p, pr) ==
  [method |-> m, via |-> v, text |-> t, parse |-> p, prints |-> pr,
   pc |-> "start", code |-> <<>>, output_code |-> <<>>, error |-> ""]

\* one request: a GET, a POST with nothing in it, a POST whose upload cannot
\* be read, and the POSTs of a text in the form or in an upload
Single ==
  { <<Request("GET", "none", <<>>, <<>>, TRUE)>>,
    <<Request("POST", "none", <<>>, <<>>, TRUE)>>,
    <<Request("POST", "badfile", <<>>, <<>>, TRUE)>> }
  \cup { <<Request("POST", v, t, p, pr)>> :
           v \in {"form", "file"}, t \in Texts,
           p \in {<<>>} \cup {<<T>> : T \in ParseTrees}, pr \in BOOLEAN }

\* two requests in flight at once
Pairs ==
  LET rs == { Request("POST", v, t, p, TRUE) :
                v \in {"form", "file"}, t \in {<<"a">>, <<"a", " ">>},
                p \in {<<>>, <<Shadowing>>} }
  IN  { <<a, b>> : a \in rs, b \in rs }

\* the value of the traversal variables while no tree has been parsed
NoTree == Node("None", NoKids)

InitServer ==
  /\ reqs \in Single \cup Pairs
  /\ active = 0
  /\ input = NoTree
  /\ tree = NoTree
  /\ scopes = <<>>
  /\ counter = 0
  /\ stack = <<>>
  /\ err = FALSE

\* the request has been answered: its record is what the page renders
Rendered(r) == reqs[r].pc = "render"

\* an except clause that also prints the tree t as the traversal left it
ExceptProcessing_WithOutput(q, t) ==
  [q EXCEPT !.error = "Error processing code", !.output_code = <<t>>, !.pc = "render"]

\* the except clause of the pipeline (t is its tree, which it does not use):
\* error is set and the page is rendered
ExceptProcessing(q, t) ==
  [q EXCEPT !.error = "Error processing code", !.pc = "render"]

\* lines 142-153 up to the await, or to line 155 when nothing is awaited
Receive(r) ==
  /\ active = 0
  /\ reqs[r].pc = "start"
  /\ LET q == reqs[r]
     IN  reqs' = [reqs EXCEPT ![r] =
           IF q.method # "POST" THEN [q EXCEPT !.pc = "render"]
           ELSE IF q.via \in {"file", "badfile"} THEN [q EXCEPT !.pc = "read"]
           ELSE IF q.via = "form" /\ q.text # <<>>
                THEN [q EXCEPT !.code = q.text, !.pc = "process"]
           ELSE [q EXCEPT !.pc = "process"]]
  /\ UNCHANGED <<input, tree, scopes, counter, stack, err, active>>

\* code = (await file.read()).decode('utf-8')
ReadUpload(r) ==
  /\ active = 0
  /\ reqs[r].pc = "read"
  /\ reqs[r].via = "file"
  /\ reqs' = [reqs EXCEPT ![r].code = reqs[r].text, ![r].pc = "process"]
  /\ UNCHANGED <<input, tree, scopes, counter, stack, err, active>>

\* the read or the decoding raises
ReadRaises(r) ==
  /\ active = 0
  /\ reqs[r].pc = "read"
  /\ reqs[r].via = "badfile"
  /\ reqs' = [reqs EXCEPT ![r].error = "Error reading uploaded file.",
                          ![r].pc = "process"]
  /\ UNCHANGED <<input, tree, scopes, counter, stack, err, active>>

\* `if code:` is false
NoCode(r) ==
  /\ active = 0
  /\ reqs[r].pc = "process"
  /\ reqs[r].code = <<>>
  /\ reqs' = [reqs EXCEPT ![r].pc = "render"]
  /\ UNCHANGED <<input, tree, scopes, counter, stack, err, active>>

\* code = preprocess_luau(code); ast.parse(code) raises
ParseRaises(r) ==
  /\ active = 0
  /\ reqs[r].pc = "process"
  /\ reqs[r].code # <<>>
  /\ reqs[r].parse = <<>>
  /\ reqs' = [reqs EXCEPT ![r] =
       ExceptProcessing([reqs[r] EXCEPT !.code = preprocess_luau(reqs[r].code)], tree)]
  /\ UNCHANGED <<input, tree, scopes, counter, stack, err, active>>

\* a constructor that leaves the counter of the instance before it
init_Deobfuscator_SharedCounter(c) == [scopes |-> <<EmptyScope>>, counter |-> c]

\* Deobfuscator(): c is the counter of the instance made before this one
init_Deobfuscator(c) == [scopes |-> <<EmptyScope>>, counter |-> 0]

\* code = preprocess_luau(code); tree = ast.parse(code); deobf = Deobfuscator();
\* the pending call deobf.visit(tree)
StartVisit(r) ==
  /\ active = 0
  /\ reqs[r].pc = "process"
  /\ reqs[r].code # <<>>
  /\ reqs[r].parse # <<>>
  /\ reqs' = [reqs EXCEPT ![r].code = preprocess_luau(reqs[r].code), ![r].pc = "visit"]
  /\ active' = r
  /\ input' = reqs[r].parse[1]
  /\ tree' = reqs[r].parse[1]
  /\ scopes' = init_Deobfuscator(counter).scopes
  /\ counter' = init_Deobfuscator(counter).counter
  /\ stack' = <<VisitCall(<<>>)>>
  /\ err' = FALSE

\* the exception of the traversal reaches the except clause
VisitRaises(r) ==
  /\ active = r
  /\ err
  /\ reqs' = [reqs EXCEPT ![r] = ExceptProcessing(reqs[r], tree)]
  /\ active' = 0
  /\ UNCHANGED <<input, tree, scopes, counter, stack, err>>

\* output_code = ast.to_pretty_str(tree): the text printed from the tree
PrintTree(r) ==
  /\ active = r
  /\ Done
  /\ reqs[r].prints
  /\ reqs' = [reqs EXCEPT ![r].output_code = <<tree>>, ![r].pc = "render"]
  /\ active' = 0
  /\ UNCHANGED <<input, tree, scopes, counter, stack, err>>

\* ast.to_pretty_str(tree) raises
PrintRaises(r) ==
  /\ active = r
  /\ Done
  /\ ~reqs[r].prints
  /\ reqs' = [reqs EXCEPT ![r] = ExceptProcessing(reqs[r], tree)]
  /\ active' = 0
  /\ UNCHANGED <<input, tree, scopes, counter, stack, err>>

NextServer ==
  \/ \E r \in DOMAIN reqs : Receive(r)
  \/ \E r \in DOMAIN reqs : ReadUpload(r)
  \/ \E r \in DOMAIN reqs : ReadRaises(r)
  \/ \E r \in DOMAIN reqs : NoCode(r)
  \/ \E r \in DOMAIN reqs : ParseRaises(r)
  \/ \E r \in DOMAIN reqs : StartVisit(r)
  \/ \E r \in DOMAIN reqs : VisitRaises(r)
  \/ \E r \in DOMAIN reqs : PrintTree(r)
  \/ \E r \in DOMAIN reqs : PrintRaises(r)
  \/ Next

SpecServer == InitServer /\ [][NextServer]_vars

----------------------------------------------------------------------------
(* The lexical binding rules of the language, read off the input tree.     *)
(* An environment is the sequence of declaration paths visible at a point, *)
(* the innermost last.                                                     *)

Range(f) == {f[i] : i \in DOMAIN f}

\* the elements of attribute f of the node at p that are Name nodes
NameElems(t, p, f) == SelectSeq(Elems(t, p, f), LAMBDA q : NodeAt(t, q).kind = "Name")

\* the declarations a statement adds to the block it stands in
StmtDecls(t, q) ==
  LET k == NodeAt(t, q).kind
  IN  IF k = "LocalAssign" THEN NameElems(t, q, "targets")
      ELSE IF k = "LocalFunction" THEN Elems(t, q, "name")
      ELSE <<>>

\* the environment in front of statement k of the Block at p entered with env
RECURSIVE BlockEnv(_, _, _, _)
BlockEnv(t, p, k, env) ==
  IF k = 1 THEN env
  ELSE BlockEnv(t, p, k - 1, env) \o StmtDecls(t, p \o << <<"body", k - 1>> >>)

\* every identifier use below the node at p with the environment it sees
RECURSIVE LuaRefs(_, _, _)
LuaRefs(t, p, env) ==
  LET n == NodeAt(t, p)
      k == n.kind
      At(f) == p \o << <<f, 1>> >>
      All(ps, e) == UNION {LuaRefs(t, ps[i], e) : i \in DOMAIN ps}
      Opt(f, e) == All(Elems(t, p, f), e)
  IN  CASE k = "Name" -> {[use |-> p, env |-> env]}
        [] k = "Block" ->
             UNION {LuaRefs(t, p \o << <<"body", i>> >>, BlockEnv(t, p, i, env)) :
                      i \in 1..Len(n.kids.body)}
        [] k = "LocalAssign" -> Opt("values", env)
        [] k = "LocalFunction" ->
             LuaRefs(t, At("body"), env \o Elems(t, p, "name") \o NameElems(t, p, "args"))
        [] k = "Function" ->
             Opt("name", env) \cup LuaRefs(t, At("body"), env \o NameElems(t, p, "args"))
        [] k = "AnonymousFunction" ->
             LuaRefs(t, At("body"), env \o NameElems(t, p, "args"))
        [] k = "For" ->
             Opt("start", env) \cup Opt("stop", env) \cup Opt("step", env)
             \cup LuaRefs(t, At("body"), env \o Elems(t, p, "target"))
        [] k = "Forin" ->
             Opt("iter", env) \cup LuaRefs(t, At("body"), env \o NameElems(t, p, "targets"))
        [] k = "Repeat" ->
             LuaRefs(t, At("body"), env)
             \cup LuaRefs(t, At("test"),
                          BlockEnv(t, At("body"), Len(NodeAt(t, At("body")).kids.body) + 1, env))
        [] OTHER -> All(ChildPaths(t, p), env)

Refs(t) == LuaRefs(t, <<>>, <<>>)

\* every path of the tree below and including p
RECURSIVE AllPaths(_, _)
AllPaths(t, p) ==
  LET cs == ChildPaths(t, p)
  IN  {p} \cup UNION {AllPaths(t, cs[i]) : i \in DOMAIN cs}

Parent(p) == SubSeq(p, 1, Len(p) - 1)

\* the declaration occurrences: local targets, local function names,
\* parameters and loop targets
IsDecl(t, d) ==
  /\ d # <<>>
  /\ NodeAt(t, d).kind = "Name"
  /\ LET k == NodeAt(t, Parent(d)).kind
         f == d[Len(d)][1]
     IN  \/ k = "LocalAssign" /\ f = "targets"
         \/ k = "LocalFunction" /\ f \in {"name", "args"}
         \/ k = "Function" /\ f = "args"
         \/ k = "For" /\ f = "target"
         \/ k = "Forin" /\ f = "targets"

Decls(t) == {d \in AllPaths(t, <<>>) : IsDecl(t, d)}

Max(S) == CHOOSE i \in S : \A j \in S : j <= i

\* the declaration the use r refers to in tree t by the text it has there:
\* the innermost visible declaration of that text, <<>> for a global
Resolve(t, r) ==
  LET hs == {i \in DOMAIN r.env : NodeAt(t, r.env[i]).id = NodeAt(t, r.use).id}
  IN  IF hs = {} THEN <<>> ELSE r.env[Max(hs)]

\* path p lies below attribute f of the node at q
Under(p, q, f) ==
  /\ Len(p) > Len(q)
  /\ SubSeq(p, 1, Len(q)) = q
  /\ p[Len(q) + 1][1] = f

KindPaths(t, kind) == {q \in AllPaths(t, <<>>) : NodeAt(t, q).kind = kind}

Text(p) == NodeAt(tree, p).id

Orig(p) == NodeAt(input, p).id

\* the declaration at d has been given its fresh name
Renamed(d) == Text(d) # Orig(d)

---------------------------------------------------------------------------------------------------------------------------------------------------
(* C1  Scope correctness: a use is never rewritten to the fresh name of a  *)
(* declaration that comes after it in program order or whose enclosing     *)
(* block it lies outside of: whenever a step changes the text of a use to  *)
(* the fresh name of a declaration d, d is in the environment the use sees *)
(* in the input.                                                           *)
ScopeCorrect ==
  [][tree' # tree =>
       \A r \in Refs(input) :
         NodeAt(tree', r.use).id # Text(r.use) =>
           \A d \in Decls(input) :
             (Renamed(d) /\ Text(d) = NodeAt(tree', r.use).id) => d \in Range(r.env)]_vars

\* a finished run in which a renamed declaration has a use in its extent that
\* took its fresh name and a use of the same original name outside its extent
ScopeCorrectWitness ==
  /\ Done
  /\ \E d \in Decls(input) : \E r1, r2 \in Refs(input) :
       /\ Renamed(d)
       /\ d \in Range(r1.env) /\ Text(r1.use) = Text(d)
       /\ d \notin Range(r2.env) /\ Orig(r2.use) = Orig(d)

----------------------------------------------------------------------------
(* C2  Nearest-enclosing resolution: when visit_Name handles a Name whose   *)
(* text is bound in active scopes, the text becomes the fresh name held by *)
(* the innermost of the scopes that bind it; when no scope binds it the    *)
(* tree is unchanged; the scopes are unchanged either way.                 *)
AtVisitName ==
  ~err /\ stack # <<>> /\ Top.op = "visit" /\ NodeAt(tree, Top.path).kind = "Name"

Holders(name) == {i \in 1..Len(scopes) : name \in DOMAIN scopes[i]}

NearestEnclosing ==
  [][AtVisitName =>
       LET name == Text(Top.path)
           hs == Holders(name)
       IN  /\ scopes' = scopes
           /\ hs # {} => NodeAt(tree', Top.path).id = scopes[Max(hs)][name]
           /\ hs = {} => tree' = tree]_vars

\* visit_Name has just rewritten a Name bound in two scopes to different
\* fresh names, and the Name carries the inner one
NearestEnclosingWitness ==
  /\ ~err /\ stack # <<>> /\ Top.op = "generic" /\ Top.field = ""
  /\ NodeAt(tree, Top.path).kind = "Name"
  /\ LET hs == Holders(Orig(Top.path))
     IN  /\ Cardinality(hs) >= 2
         /\ \E i \in hs : i # Max(hs) /\ scopes[i][Orig(Top.path)] # scopes[Max(hs)][Orig(Top.path)]
         /\ Text(Top.path) = scopes[Max(hs)][Orig(Top.path)]

----------------------------------------------------------------------------
(* C3  LocalAssign resolves its values before it declares its targets: a   *)
(* use in the values of a local statement that has been rewritten carries  *)
(* the fresh name of the declaration it refers to in the input, which is   *)
(* the name of none of the statement's targets; and once a target of the   *)
(* statement has its fresh name, every use in the values (outside function *)
(* bodies nested in them) that refers to a renamed declaration carries     *)
(* that declaration's name already.                                        *)
InFunction(q, p) ==
  \E k \in Len(q) + 1..Len(p) - 1 :
    NodeAt(input, SubSeq(p, 1, k)).kind = "AnonymousFunction"

ValuesFirstIn(t) ==
  \A q \in KindPaths(input, "LocalAssign") :
    \A r \in Refs(input) :
      Under(r.use, q, "values") =>
        LET u == NodeAt(t, r.use).id
            d == Resolve(input, r)
            ts == Elems(input, q, "targets")
        IN  /\ u # Orig(r.use) =>
                 /\ d # <<>>
                 /\ u = NodeAt(t, d).id
                 /\ \A i \in DOMAIN ts : NodeAt(t, ts[i]).id # u
            /\ ( /\ \E i \in DOMAIN ts : NodeAt(t, ts[i]).id # Orig(ts[i])
                 /\ ~InFunction(q, r.use)
                 /\ d # <<>>
                 /\ NodeAt(t, d).id # Orig(d) )
               => u = NodeAt(t, d).id

----------------------------------------------------------------------------
(* C4  Repeat-until visibility: after the run, a use in the until-condition *)
(* of a Repeat that refers to a local declared in the loop body carries    *)
(* that declaration's fresh name.                                          *)
RepeatUntilVisible ==
  Done =>
    \A q \in KindPaths(input, "Repeat") :
      \A r \in Refs(input) :
        LET d == Resolve(input, r)
        IN  (Under(r.use, q, "test") /\ d # <<>> /\ Under(d, q, "body"))
              => (Renamed(d) /\ Text(r.use) = Text(d))

----------------------------------------------------------------------------
(* C5  Loop variable isolation: after the run, two sibling numeric loops   *)
(* over the same name have different target names, every use in a loop     *)
(* body that refers to the loop variable carries that loop's target name,  *)
(* and a use of the name after the loops carries neither.                  *)
Siblings2(q1, q2) ==
  /\ q1 # q2
  /\ Parent(q1) = Parent(q2)
  /\ Orig(q1 \o << <<"target", 1>> >>) = Orig(q2 \o << <<"target", 1>> >>)

LoopIsolation ==
  Done =>
    \A q1, q2 \in KindPaths(input, "For") :
      Siblings2(q1, q2) =>
        LET t1 == q1 \o << <<"target", 1>> >>
            t2 == q2 \o << <<"target", 1>> >>
        IN  /\ Text(t1) # Text(t2)
            /\ \A r \in Refs(input) :
                 /\ Resolve(input, r) = t1 => Text(r.use) = Text(t1)
                 /\ (t1 \notin Range(r.env) /\ t2 \notin Range(r.env))
                      => Text(r.use) \notin {Text(t1), Text(t2)}

----------------------------------------------------------------------------
(* C6  LocalFunction consistent renaming: after the run, the name and the  *)
(* parameters of a local function have pairwise different fresh names and  *)
(* every use that refers to one of them (in the body, recursively, or in   *)
(* later statements of the enclosing block) carries its fresh name.        *)
LocalFunctionConsistent ==
  Done =>
    \A q \in KindPaths(input, "LocalFunction") :
      LET ds == Elems(input, q, "name") \o Elems(input, q, "args")
      IN  /\ \A i, j \in DOMAIN ds : i # j => Text(ds[i]) # Text(ds[j])
          /\ \A i \in DOMAIN ds : Renamed(ds[i])
          /\ \A r \in Refs(input) :
               Resolve(input, r) \in Range(ds) => Text(r.use) = Text(Resolve(input, r))

----------------------------------------------------------------------------
(* C7  Global pass-through: the text of a use changes only in the          *)
(* visit_Name call made for it, and not even then when no active scope     *)
(* binds its name; so a use that no active scope bound when it was visited *)
(* ends the run with the text it has in the input.                         *)
GlobalPassThrough ==
  [][(tree' # tree \/ AtVisitName) =>
       \A r \in Refs(input) :
         LET visited == AtVisitName /\ Top.path = r.use
         IN  /\ ~visited => NodeAt(tree', r.use).id = Text(r.use)
             /\ (visited /\ Holders(Text(r.use)) = {})
                  => (Text(r.use) = Orig(r.use) /\ NodeAt(tree', r.use).id = Orig(r.use))]_vars

\* a finished run that renamed a declaration and left alone a use of the same
\* original name that no declaration is visible to
GlobalPassThroughWitness ==
  /\ Done
  /\ \E r \in Refs(input) : \E d \in Decls(input) :
       /\ Resolve(input, r) = <<>>
       /\ Orig(d) = Orig(r.use)
       /\ Renamed(d)
       /\ Text(r.use) = Orig(r.use)

----------------------------------------------------------------------------
(* C8  Fresh-name uniqueness: the counter never decreases; a step that     *)
(* moves it moves it by exactly one and writes the name numbered by the    *)
(* new counter value to exactly one declaration, a name no other           *)
(* declaration carries; no other step changes the text of a declaration.   *)
Numbered(k) ==
  <<"var1", "var2", "var3", "var4", "var5", "var6", "var7", "var8", "var9",
    "var10", "var11", "var12", "var13", "var14", "var15", "var16">>[k]

FreshNames ==
  [][/\ counter' >= counter
     /\ counter' # counter =>
          /\ counter' = counter + 1
          /\ \E d \in Decls(input) :
               /\ NodeAt(tree', d).id = Numbered(counter')
               /\ \A e \in Decls(input) \ {d} :
                    NodeAt(tree', e).id = Text(e) /\ Text(e) # Numbered(counter')
     /\ (counter' = counter /\ tree' # tree) =>
          \A d \in Decls(input) : NodeAt(tree', d).id = Text(d)]_vars

\* eleven names have been issued, the last one numbered with two digits
FreshNamesWitness ==
  /\ Done
  /\ counter = Cardinality(Decls(input))
  /\ counter > Cardinality(1..9) + 1
  /\ \E d \in Decls(input) : Text(d) = "var11"

----------------------------------------------------------------------------
(* C9  Binding preservation: after the run every use refers, by the        *)
(* language's binding rules applied to the texts of the renamed tree, to   *)
(* the declaration it refers to in the input, and a use that is global in  *)
(* the input is the same global.                                           *)
BindingPreserved ==
  Done =>
    \A r \in Refs(input) :
      /\ Resolve(tree, r) = Resolve(input, r)
      /\ Resolve(input, r) = <<>> => Text(r.use) = Orig(r.use)

----------------------------------------------------------------------------
(* C10  Structural round-trip: a step that changes the tree changes only   *)
(* the text of Name nodes: with those texts erased the tree is the input.  *)
RECURSIVE Erase(_)
Erase(n) ==
  [kind |-> n.kind,
   id |-> IF n.kind = "Name" THEN "" ELSE n.id,
   kids |-> [f \in DOMAIN n.kids |->
               [i \in DOMAIN n.kids[f] |-> Erase(n.kids[f][i])]]]

StructureKept == [][tree' # tree => Erase(tree') = Erase(input)]_vars

\* a finished run that rewrote a declaration and a use
StructureKeptWitness ==
  /\ Done
  /\ Erase(tree) = Erase(input)
  /\ \E d \in Decls(input) : Renamed(d)
  /\ \E r \in Refs(input) : Text(r.use) # Orig(r.use)

----------------------------------------------------------------------------
(* C11  No partial output on error: a request that has output is answered, *)
(* has no error, and every stage of its pipeline returned; an answered     *)
(* POST in which the read of the upload, the parse, the traversal or the   *)
(* printing raised has an error and no output.                             *)

\* the traversal of t raises: a parameter of a function is not a Name
Raises(t) ==
  \E p \in AllPaths(t, <<>>) :
    /\ NodeAt(t, p).kind \in {"Function", "LocalFunction"}
    /\ \E i \in DOMAIN NodeAt(t, p).kids.args : NodeAt(t, p).kids.args[i].kind # "Name"

\* a stage of the request's pipeline raises
Failed(q) ==
  /\ q.method = "POST"
  /\ \/ q.via = "badfile"
     \/ /\ q.via \in {"form", "file"}
        /\ q.text # <<>>
        /\ \/ q.parse = <<>>
           \/ ~q.prints
           \/ Raises(q.parse[1])

NoPartialOutput ==
  \A r \in DOMAIN reqs :
    LET q == reqs[r]
    IN  /\ q.output_code # <<>> =>
             Rendered(r) /\ q.error = "" /\ q.method = "POST" /\ ~Failed(q)
        /\ Rendered(r) /\ Failed(q) => q.error # "" /\ q.output_code = <<>>

\* the traversal raised after it had rewritten part of the tree, and the
\* answer has the error and no output
NoPartialOutputWitness ==
  /\ Rendered(1)
  /\ reqs[1].parse = <<VarargsFunction>>
  /\ tree # input
  /\ reqs[1].error # ""
  /\ reqs[1].output_code = <<>>

----------------------------------------------------------------------------
(* C12  Original input preserved on error: in an answer that carries an    *)
(* error, the input text shown back is the text that was submitted.        *)
InputPreserved ==
  \A r \in DOMAIN reqs :
    Rendered(r) /\ reqs[r].error # "" => reqs[r].code = reqs[r].text

----------------------------------------------------------------------------
(* C13  Per-request isolation: every traversal starts on one empty root    *)
(* scope and a counter of 0, whatever ran before it; the declarations of a *)
(* printed tree carry var1..varN for the N declarations of that request's  *)
(* own tree; and two answered requests that were sent the same thing have  *)
(* the same answer, in whatever order the two were handled.                *)

\* what the request was sent, and what the library answers on it
Sent(q) == <<q.method, q.via, q.text, q.parse, q.prints>>

\* what the page shows
Answer(q) == <<q.code, q.output_code, q.error>>

Isolation ==
  /\ active # 0 /\ stack = <<VisitCall(<<>>)>> =>
       scopes = <<EmptyScope>> /\ counter = 0
  /\ \A r \in DOMAIN reqs :
       LET q == reqs[r]
       IN  q.output_code # <<>> =>
             LET ds == Decls(q.parse[1])
             IN  {NodeAt(q.output_code[1], d).id : d \in ds}
                   = {Numbered(k) : k \in 1..Cardinality(ds)}
  /\ \A r1, r2 \in DOMAIN reqs :
       Rendered(r1) /\ Rendered(r2) /\ Sent(reqs[r1]) = Sent(reqs[r2]) =>
         Answer(reqs[r1]) = Answer(reqs[r2])

\* two uploads of the same text have both been answered, one after the
\* other, and both answers carry the same renamed tree
IsolationWitness ==
  /\ Len(reqs) = 2
  /\ Rendered(1)
  /\ Rendered(2)
  /\ Sent(reqs[1]) = Sent(reqs[2])
  /\ reqs[1].via = "file"
  /\ reqs[1].output_code # <<>>
  /\ reqs[1].output_code = reqs[2].output_code
  /\ reqs[1].output_code # reqs[1].parse

----------------------------------------------------------------------------
(* C14  Structural error on unknown nodes: a request whose tree holds a    *)
(* node of a kind the renamer does not recognize, or a malformed           *)
(* parameter, is answered with an error and without output.                *)

\* the kinds the renamer deals with: those it has a handler for, the ElseIf
\* visit_If walks, the root, and the expressions and statements that hold
\* neither a declaration nor a body
Recognized ==
  Handled \cup {"ElseIf", "Chunk", "Number", "Varargs", "UnaryOp", "AddOp", "Call",
               "Return"}

Unrecognized(t) == \E p \in AllPaths(t, <<>>) : NodeAt(t, p).kind \notin Recognized

StructuralError ==
  \A r \in DOMAIN reqs :
    LET q == reqs[r]
    IN  /\ Rendered(r)
        /\ q.method = "POST"
        /\ q.text # <<>>
        /\ q.parse # <<>>
        /\ Unrecognized(q.parse[1]) \/ Raises(q.parse[1])
        => q.error # "" /\ q.output_code = <<>>

----------------------------------------------------------------------------
(* The lexical depth of a place in the input by the language's block       *)
(* structure: the root is at depth 1, the statements of a block are one    *)
(* deeper than the construct that owns the block, and the parameters of a  *)
(* function, the variables of a loop and the condition of a repeat are at  *)
(* the depth of the statements of the body they belong to.                 *)
RECURSIVE Depth(_)
Depth(p) ==
  IF p = <<>> THEN 1
  ELSE LET k == NodeAt(input, Parent(p)).kind
           f == p[Len(p)][1]
       IN  Depth(Parent(p))
           + (IF \/ k = "Block" /\ f = "body"
                 \/ k \in {"Function", "LocalFunction"} /\ f = "args"
                 \/ k = "For" /\ f = "target"
                 \/ k = "Forin" /\ f = "targets"
                 \/ k = "Repeat" /\ f = "test"
              THEN 1 ELSE 0)

\* the If statements the path p lies inside of
IfsAbove(p) ==
  {q \in {SubSeq(p, 1, n) : n \in 0..(Len(p) - 1)} : NodeAt(input, q).kind = "If"}

\* p lies in the condition of the If at q or in the condition of one of its elseifs
InCondition(q, p) ==
  \/ Under(p, q, "test")
  \/ Under(p, q, "orelse") /\ Len(p) > Len(q) + 1 /\ p[Len(q) + 2][1] = "test"

\* the branch of the If at q that p lies in: 0 for the then-branch, i for the
\* i-th element of orelse
BranchOf(q, p) == IF Under(p, q, "body") THEN 0 ELSE p[Len(q) + 1][2]

\* the renamed declarations inside the If at q whose fresh name a scope holds
HeldFrom(q) ==
  {d \in Decls(input) :
     /\ Len(d) > Len(q) /\ SubSeq(d, 1, Len(q)) = q
     /\ Renamed(d)
     /\ \E i \in DOMAIN scopes : \E n \in DOMAIN scopes[i] : scopes[i][n] = Text(d)}

----------------------------------------------------------------------------
(* C15  If/ElseIf chain scoping: whenever the traversal is at a node       *)
(* inside an If, then if the node lies in the condition of the If or of    *)
(* one of its elseifs the scope stack is as deep as on entry to the If and *)
(* holds no binding made inside the If; otherwise the node lies in a       *)
(* branch, the stack is deeper than on entry and the only bindings made    *)
(* inside the If that it holds were made in that same branch.              *)
IfChainScoping ==
  (~err /\ stack # <<>> /\ Top.op \in {"visit", "declare"}) =>
    \A q \in IfsAbove(Top.path) :
      IF InCondition(q, Top.path)
      THEN Len(scopes) = Depth(q) /\ HeldFrom(q) = {}
      ELSE /\ Len(scopes) > Depth(q)
           /\ \A d \in HeldFrom(q) : BranchOf(q, d) = BranchOf(q, Top.path)

\* the traversal is at the y of `elseif not y` while the then-branch before
\* it has declared a local y, and the stack is as it was on entry to the If
IfChainScopingWitness ==
  /\ ~err /\ stack # <<>> /\ Top.op = "visit"
  /\ NodeAt(tree, Top.path).kind = "Name"
  /\ \E q \in IfsAbove(Top.path) :
       /\ Under(Top.path, q, "orelse")
       /\ InCondition(q, Top.path)
       /\ Len(scopes) = Depth(q)
       /\ \E d \in Decls(input) :
            Under(d, q, "body") /\ Renamed(d) /\ Orig(d) = Text(Top.path)

----------------------------------------------------------------------------
(* C16  Numeric For control expressions: when the body of a numeric for    *)
(* starts, the stack is one deeper than at the loop and its innermost      *)
(* scope binds the loop variable and nothing else; and after the run every *)
(* identifier in the start, stop and step expressions of a loop that       *)
(* refers to a local of an enclosing scope carries that local's fresh      *)
(* name, and never the loop variable's.                                    *)
ForControl ==
  /\ (~err /\ stack # <<>> /\ Top.op = "generic" /\ Top.path # <<>>
        /\ NodeAt(input, Parent(Top.path)).kind = "For"
        /\ Top.path[Len(Top.path)][1] = "body") =>
       /\ Len(scopes) = Depth(Parent(Top.path)) + 1
       /\ DOMAIN scopes[Len(scopes)] = {Orig(Parent(Top.path) \o << <<"target", 1>> >>)}
  /\ Done =>
       \A q \in KindPaths(input, "For") : \A r \in Refs(input) :
         (Under(r.use, q, "start") \/ Under(r.use, q, "stop") \/ Under(r.use, q, "step")) =>
           /\ Text(r.use) # Text(q \o << <<"target", 1>> >>)
           /\ Resolve(input, r) # <<>> => Text(r.use) = Text(Resolve(input, r))

----------------------------------------------------------------------------
(* C17  Declaration effect: a step that declares the Name at p advances    *)
(* the counter by one, gives p the name numbered by the new counter value, *)
(* leaves every other node as it is, and maps the text p has in the input  *)
(* to that name in the innermost scope, leaving the other entries of that  *)
(* scope, the outer scopes and the depth as they are; no other step        *)
(* advances the counter, and the counter equals the number of declarations *)
(* that have been given a name.                                            *)
AtDeclare ==
  ~err /\ stack # <<>> /\ Top.op = "declare" /\ NodeAt(tree, Top.path).kind = "Name"

DeclarationEffect ==
  [][/\ AtDeclare =>
          LET p == Top.path
              n == Len(scopes)
              new == NodeAt(tree', p).id
          IN  /\ counter' = counter + 1
              /\ new = Numbered(counter')
              /\ \A q \in AllPaths(input, <<>>) \ {p} : NodeAt(tree', q).id = Text(q)
              /\ Erase(tree') = Erase(input)
              /\ Len(scopes') = n
              /\ \A i \in 1..(n - 1) : scopes'[i] = scopes[i]
              /\ DOMAIN scopes'[n] = DOMAIN scopes[n] \cup {Orig(p)}
              /\ scopes'[n][Orig(p)] = new
              /\ \A k \in DOMAIN scopes[n] \ {Orig(p)} : scopes'[n][k] = scopes[n][k]
              /\ counter' = Cardinality({d \in Decls(input) : NodeAt(tree', d).id # Orig(d)})
     /\ counter' # counter => AtDeclare
     /\ (Done' /\ ~Done) => counter' = Cardinality(Decls(input))]_vars

\* a declaration inside a nested block has shadowed an outer local of the
\* same name: the innermost scope maps the name to the newest fresh name and
\* the outer scope still maps it to the older one
DeclarationEffectWitness ==
  /\ ~err
  /\ counter >= 2
  /\ Len(scopes) >= 3
  /\ \E n \in DOMAIN scopes[Len(scopes)] :
       /\ scopes[Len(scopes)][n] = Numbered(counter)
       /\ \E i \in 1..(Len(scopes) - 1) :
            n \in DOMAIN scopes[i] /\ scopes[i][n] # Numbered(counter)

----------------------------------------------------------------------------
(* C18  Scope stack balance: the stack always holds at least the root      *)
(* scope and a pop is only ever made on a stack of two or more; the depth  *)
(* is always one plus the pops still to be made by the handlers that have  *)
(* been entered minus the pushes still to be made, so a handler returns at *)
(* the depth it was entered at; every node is reached at its lexical       *)
(* depth; and when the traversal has finished the stack is the root scope  *)
(* alone.                                                                  *)

\* how many of the pending calls are calls of op
Pending(op) == Cardinality({i \in DOMAIN stack : stack[i].op = op})

ScopeBalance ==
  /\ Len(scopes) >= 1
  /\ ~err =>
       /\ Len(scopes) = 1 + Pending("pop") - Pending("push")
       /\ (stack # <<>> /\ Top.op = "pop") => Len(scopes) >= 2
       /\ (stack # <<>> /\ Top.op \in {"visit", "declare"}) => Len(scopes) = Depth(Top.path)
  /\ Done => Len(scopes) = 1

\* a run that declared a local inside a nested block, two scopes above the
\* root, has finished and the stack is the root scope alone
ScopeBalanceWitness ==
  /\ Done
  /\ Len(scopes) = 1
  /\ counter >= 2
  /\ \E d \in Decls(input) : Depth(d) >= Len(scopes) + 2 /\ Renamed(d)

----------------------------------------------------------------------------
(* C19  Root scope stays empty: in every state of the traversal of a       *)
(* parsed program the first scope of the stack binds nothing.              *)
RootEmpty == scopes # <<>> /\ DOMAIN scopes[1] = {}

\* a local function at the top level of the program has been declared: its
\* name is bound in the scope of the top-level block, above the empty root
RootEmptyWitness ==
  /\ Len(scopes) >= 2
  /\ DOMAIN scopes[1] = {}
  /\ \E d \in Decls(input) :
       /\ NodeAt(input, Parent(d)).kind = "LocalFunction"
       /\ d[Len(d)][1] = "name"
       /\ Depth(d) = 2
       /\ Renamed(d)
       /\ Orig(d) \in DOMAIN scopes[2]
       /\ scopes[2][Orig(d)] = Text(d)

====
